---- MODULE Spec2Model ----
(***************************************************************************)
(* The batch validator (src/unnamed/part_001), the Zod batch schema        *)
(* (src/unnamed/part_003) and the manifest merger (src/unnamed/part_002)   *)
(* of the aviation glossary.                                               *)
(*                                                                         *)
(* Strings that a regular expression reads are sequences of one-character  *)
(* strings.  A section content is a sequence of tokens [ch, n]: a markup   *)
(* relevant character (n = 1) or a run of n >= 1 plain letters (ch = "x"). *)
(* Timestamps are integer milliseconds: Date.toISOString() prints a Date   *)
(* to the millisecond and new Date(iso).getTime() reads the same integer.  *)
(***************************************************************************)
EXTENDS Integers, Sequences, FiniteSets, TLC

VARIABLES
    batchFiles,     \* the batch artifacts on disk, by path
    corpusFile,     \* packages/web/src/features/glossary/glossaryData.json
    manifestFile,   \* data/manifest.json
    prevManifest,   \* data/manifest.json as it was when the last command started
    last,           \* the last command run: its arguments, exit code and report
    procs,          \* the update-manifest processes that run side by side
    writers         \* those that saved the manifest, in the order of their writes

vars == <<batchFiles, corpusFile, manifestFile, prevManifest, last, procs, writers>>

(***************************************************************************)
(* Bounds                                                                  *)
(***************************************************************************)
MaxTime == 3        \* the wall clock reads 1..MaxTime
MaxTerms == 2       \* terms in a batch file of the validation scenarios

(***************************************************************************)
(* Sequence helpers                                                        *)
(***************************************************************************)
Range(s) == {s[i] : i \in DOMAIN s}

RECURSIVE Flatten(_)
Flatten(ss) == IF ss = <<>> THEN <<>> ELSE Head(ss) \o Flatten(Tail(ss))

\* [...new Set(s)]: the distinct members of s in order of first appearance
RECURSIVE Dedup(_)
Dedup(s) ==
    IF s = <<>> THEN <<>>
    ELSE LET r == Dedup(SubSeq(s, 1, Len(s) - 1))
             x == s[Len(s)]
         IN  IF x \in Range(r) THEN r ELSE Append(r, x)

SeqsUpTo(S, n) == UNION {[1..k -> S] : k \in 0..n}

(***************************************************************************)
(* glossaryBatch.zod.ts: constants and patterns                            *)
(***************************************************************************)
VALID_CATEGORIES ==
    {"Navigation", "Weather", "Communication", "Safety", "Performance",
     "Flight Controls", "Navigation Systems", "Equipment", "Procedures",
     "Electrical Systems", "Electrical", "Pneumatic Systems",
     "Environmental Systems", "Ice Protection Systems", "Cargo Systems",
     "Hydraulic Systems", "Communication Systems", "Lighting Systems",
     "Cabin Systems", "Fire Protection Systems", "Flight Instruments",
     "Engine Systems", "System Controls", "Safety Equipment",
     "Communications", "Landing Gear"}

RELATIONSHIP_TYPES == {"broader", "narrower", "related", "seeAlso"}

LowerAlnum ==
    {"a", "b", "c", "d", "e", "f", "g", "h", "i", "j", "k", "l", "m",
     "n", "o", "p", "q", "r", "s", "t", "u", "v", "w", "x", "y", "z",
     "0", "1", "2", "3", "4", "5", "6", "7", "8", "9"}

\* /^[a-z0-9]+(-[a-z0-9]+)*$/ : segments of lowercase alphanumerics joined by
\* single hyphens.  SegmentsFrom(s, i) is the match of [a-z0-9]+(-[a-z0-9]+)*$
\* at position i.
RECURSIVE SegmentsFrom(_, _)
SegmentsFrom(s, i) ==
    /\ i <= Len(s)
    /\ s[i] \in LowerAlnum
    /\ \/ i = Len(s)
       \/ SegmentsFrom(s, i + 1)
       \/ i + 1 <= Len(s) /\ s[i + 1] = "-" /\ SegmentsFrom(s, i + 2)

KEBAB_CASE_REGEX(s) == SegmentsFrom(s, 1)

IdMinLen == 1
IdMaxLen == 100
TitleMinLen == 1
TitleMaxLen == 200
ContentMinLen == 10
ContentMaxLen == 2000

(***************************************************************************)
(* Section contents                                                        *)
(***************************************************************************)
Plain(n) == [ch |-> "x", n |-> n]
Mark(c) == [ch |-> c, n |-> 1]

RECURSIVE ContentLength(_)
ContentLength(c) == IF c = <<>> THEN 0 ELSE Head(c).n + ContentLength(Tail(c))

\* the grave accent, which a TLA+ string cannot hold
Backtick == "GRAVE"

\* the characters "." does not match
LineTerminators == {"\n", "\r"}
\* the characters "\s" matches, among those of the alphabet
WhiteSpace == {" ", "\t", "\n", "\r"}

\* c[i..j] holds no line terminator, i.e. ".*?" can span it
SameLine(c, i, j) == \A k \in i..j : c[k].ch \notin LineTerminators

\* /X.*?X/ for a one-character delimiter X
Delimited(c, x) ==
    \E i, j \in DOMAIN c :
        i < j /\ c[i].ch = x /\ c[j].ch = x /\ SameLine(c, i + 1, j - 1)

RunOf(c, x, i, k) == i + k - 1 <= Len(c) /\ \A m \in i..(i + k - 1) : c[m].ch = x

\* /\*\*.*?\*\*/
MdBold(c) ==
    \E i, j \in DOMAIN c :
        /\ RunOf(c, "*", i, 2) /\ j >= i + 2 /\ RunOf(c, "*", j, 2)
        /\ SameLine(c, i + 2, j - 1)
\* /\*.*?\*/
MdItalicStar(c) == Delimited(c, "*")
\* /_.*?_/
MdItalicUnderscore(c) == Delimited(c, "_")
\* /#{1,6}\s/
MdHeader(c) ==
    \E i \in DOMAIN c : c[i].ch = "#" /\ i + 1 <= Len(c) /\ c[i + 1].ch \in WhiteSpace
\* /\[.*?\]\(.*?\)/, matched from position i
LinkAt(c, i) ==
    /\ i \in DOMAIN c /\ c[i].ch = "["
    /\ \E j, k \in DOMAIN c :
        /\ i < j /\ c[j].ch = "]" /\ SameLine(c, i + 1, j - 1)
        /\ j + 1 <= Len(c) /\ c[j + 1].ch = "("
        /\ j + 1 < k /\ c[k].ch = ")" /\ SameLine(c, j + 2, k - 1)
MdLink(c) == \E i \in DOMAIN c : LinkAt(c, i)
\* /!\[.*?\]\(.*?\)/
MdImage(c) == \E i \in DOMAIN c : c[i].ch = "!" /\ LinkAt(c, i + 1)
\* /```[\s\S]*?```/
MdCodeBlock(c) ==
    \E i, j \in DOMAIN c : RunOf(c, Backtick, i, 3) /\ j >= i + 3 /\ RunOf(c, Backtick, j, 3)
\* /`.*?`/
MdInlineCode(c) == Delimited(c, Backtick)

\* a refinement that knows the two code patterns only
containsMarkdownCodeOnly(c) == MdCodeBlock(c) \/ MdInlineCode(c)

\* MARKDOWN_PATTERNS.some(pattern => pattern.test(text))
containsMarkdown(c) ==
    \/ MdBold(c) \/ MdItalicStar(c) \/ MdItalicUnderscore(c) \/ MdHeader(c)
    \/ MdLink(c) \/ MdImage(c) \/ MdCodeBlock(c) \/ MdInlineCode(c)

(***************************************************************************)
(* Terms and batches.  Of a term the model keeps id, title (by its         *)
(* length), category, sections (a function from the section keys present   *)
(* to their contents) and relationships (termId, type); synonyms, tags,    *)
(* description, createdAt and updatedAt are taken to be well formed.       *)
(***************************************************************************)
SectionKeys == {"whatItIs", "location", "howItWorks", "whatYouShouldDo", "troubleshooting"}

Err(kind, index, field, message) ==
    [kind |-> kind, index |-> index, field |-> field, message |-> message,
     termId |-> <<>>, target |-> <<>>]

\* GlossarySectionSchema: plainTextRefinement, min(10), max(2000)
ZodSectionErrors(c, i, key) ==
    (IF containsMarkdown(c)
        THEN <<Err("zod", i, key, "Content must be plain text only")>> ELSE <<>>)
    \o (IF ContentLength(c) < ContentMinLen
        THEN <<Err("zod", i, key, "Content must be at least 10 characters")>> ELSE <<>>)
    \o (IF ContentLength(c) > ContentMaxLen
        THEN <<Err("zod", i, key, "Content must not exceed 2000 characters")>> ELSE <<>>)

\* the keys of an object in the order the schema lists them
SectionOrder == <<"whatItIs", "location", "howItWorks", "whatYouShouldDo", "troubleshooting">>

\* sections: z.object({whatItIs, location?, ...}).strict()
ZodSectionsErrors(secs, i) ==
    (IF "whatItIs" \notin DOMAIN secs
        THEN <<Err("zod", i, "sections.whatItIs", "Required")>> ELSE <<>>)
    \o Flatten([k \in DOMAIN SectionOrder |->
            IF SectionOrder[k] \in DOMAIN secs
            THEN ZodSectionErrors(secs[SectionOrder[k]], i, SectionOrder[k])
            ELSE <<>>])
    \o (IF DOMAIN secs \subseteq SectionKeys
        THEN <<>> ELSE <<Err("zod", i, "sections", "Unrecognized key(s) in object")>>)

\* SemanticRelationshipSchema
ZodRelationshipErrors(rel, i) ==
    (IF KEBAB_CASE_REGEX(rel.termId)
        THEN <<>> ELSE <<Err("zod", i, "relationships.termId", "termId must be in kebab-case format")>>)
    \o (IF Len(rel.termId) < IdMinLen
        THEN <<Err("zod", i, "relationships.termId", "termId cannot be empty")>> ELSE <<>>)
    \o (IF Len(rel.termId) > IdMaxLen
        THEN <<Err("zod", i, "relationships.termId", "termId must not exceed 100 characters")>> ELSE <<>>)
    \o (IF rel.type \in RELATIONSHIP_TYPES
        THEN <<>> ELSE <<Err("zod", i, "relationships.type", "Invalid enum value")>>)

\* TAG_PATTERN /^[a-z0-9-]+$/ used where the kebab-case pattern belongs
ZodKebabIdAsTag(id) == id # <<>> /\ \A i \in DOMAIN id : id[i] \in LowerAlnum \cup {"-"}

\* the regex check of GlossaryTermSchema.id
ZodKebabId(id) == KEBAB_CASE_REGEX(id)

\* GlossaryTermSchema; i is the term's index in the batch (from 0)
ZodTermErrors(t, i) ==
    (IF ZodKebabId(t.id)
        THEN <<>> ELSE <<Err("zod", i, "id", "ID must be in kebab-case format")>>)
    \o (IF Len(t.id) < IdMinLen THEN <<Err("zod", i, "id", "ID cannot be empty")>> ELSE <<>>)
    \o (IF Len(t.id) > IdMaxLen
        THEN <<Err("zod", i, "id", "ID must not exceed 100 characters")>> ELSE <<>>)
    \o (IF t.title < TitleMinLen THEN <<Err("zod", i, "title", "Title cannot be empty")>> ELSE <<>>)
    \o (IF t.title > TitleMaxLen
        THEN <<Err("zod", i, "title", "Title must not exceed 200 characters")>> ELSE <<>>)
    \o (IF t.category \in VALID_CATEGORIES
        THEN <<>> ELSE <<Err("zod", i, "category", "Invalid enum value")>>)
    \o ZodSectionsErrors(t.sections, i)
    \o Flatten([r \in DOMAIN t.relationships |-> ZodRelationshipErrors(t.relationships[r], i)])

\* a batch schema without the refinement
ZodUniqueIdsUnchecked(terms) == TRUE

\* the refinement of GlossaryBatchSchema.terms: ids.length === new Set(ids).size
ZodUniqueIds(terms) ==
    Len(terms) = Cardinality({terms[i].id : i \in DOMAIN terms})

\* GlossaryBatchSchema.parse(data), as the list validateZodSchema returns
validateZodSchema(terms) ==
    Flatten([i \in DOMAIN terms |-> ZodTermErrors(terms[i], i - 1)])
    \o (IF Len(terms) < 1
        THEN <<Err("zod", 0, "terms", "Batch must contain at least 1 term")>> ELSE <<>>)
    \o (IF ZodUniqueIds(terms)
        THEN <<>> ELSE <<Err("zod", 0, "terms", "All term IDs must be unique within a batch")>>)

\* schemas/batch.schema.json as Ajv applies it: the shape rules of the data
\* model (patterns, enumerations, size bounds, closed records), without the
\* plain-text refinement and the unique-id refinement that Zod adds
JsonIdPattern(id) ==
    /\ id # <<>>
    /\ \A k \in DOMAIN id : id[k] \in LowerAlnum \cup {"-"}
    /\ id[1] # "-" /\ id[Len(id)] # "-"
    /\ \A k \in 1..(Len(id) - 1) : ~(id[k] = "-" /\ id[k + 1] = "-")

JsonSchemaTermErrors(t, i) ==
    (IF JsonIdPattern(t.id) THEN <<>> ELSE <<Err("jsonschema", i, "id", "must match pattern")>>)
    \o (IF Len(t.id) > IdMaxLen
        THEN <<Err("jsonschema", i, "id", "must NOT have more than 100 characters")>> ELSE <<>>)
    \o (IF t.title < TitleMinLen
        THEN <<Err("jsonschema", i, "title", "must NOT have fewer than 1 characters")>> ELSE <<>>)
    \o (IF t.title > TitleMaxLen
        THEN <<Err("jsonschema", i, "title", "must NOT have more than 200 characters")>> ELSE <<>>)
    \o (IF t.category \in VALID_CATEGORIES
        THEN <<>> ELSE <<Err("jsonschema", i, "category", "must be equal to one of the allowed values")>>)
    \o (IF "whatItIs" \in DOMAIN t.sections
        THEN <<>> ELSE <<Err("jsonschema", i, "sections", "must have required property whatItIs")>>)
    \o (IF DOMAIN t.sections \subseteq SectionKeys
        THEN <<>> ELSE <<Err("jsonschema", i, "sections", "must NOT have additional properties")>>)
    \o Flatten([k \in DOMAIN SectionOrder |->
            IF SectionOrder[k] \in DOMAIN t.sections
            THEN LET n == ContentLength(t.sections[SectionOrder[k]])
                 IN  (IF n < ContentMinLen
                        THEN <<Err("jsonschema", i, SectionOrder[k], "must NOT have fewer than 10 characters")>>
                        ELSE <<>>)
                     \o (IF n > ContentMaxLen
                        THEN <<Err("jsonschema", i, SectionOrder[k], "must NOT have more than 2000 characters")>>
                        ELSE <<>>)
            ELSE <<>>])
    \o Flatten([r \in DOMAIN t.relationships |->
            (IF JsonIdPattern(t.relationships[r].termId)
                THEN <<>> ELSE <<Err("jsonschema", i, "relationships.termId", "must match pattern")>>)
            \o (IF t.relationships[r].type \in RELATIONSHIP_TYPES
                THEN <<>>
                ELSE <<Err("jsonschema", i, "relationships.type", "must be equal to one of the allowed values")>>)])

validateJsonSchema(terms) ==
    Flatten([i \in DOMAIN terms |-> JsonSchemaTermErrors(terms[i], i - 1)])
    \o (IF Len(terms) < 1
        THEN <<Err("jsonschema", 0, "terms", "must NOT have fewer than 1 items")>> ELSE <<>>)

(***************************************************************************)
(* validate-batch: the phases after structural validation                  *)
(***************************************************************************)
Warn(kind, termId, section, name, category, count) ==
    [kind |-> kind, termId |-> termId, section |-> section, name |-> name,
     category |-> category, count |-> count, need |-> 0]

\* a quiz warning: "has only count term(s) ... Add 4 - count more term(s)"
QuizWarn(kind, category, count) ==
    [Warn(kind, <<>>, "", "", category, count) EXCEPT !.need = 4 - count]

\* the six patterns checkForMarkdown tests, in its order
MarkdownWarningNames(c) ==
    (IF MdBold(c) THEN <<"bold">> ELSE <<>>)
    \o (IF MdItalicStar(c) THEN <<"italic star">> ELSE <<>>)
    \o (IF MdItalicUnderscore(c) THEN <<"italic underscore">> ELSE <<>>)
    \o (IF MdHeader(c) THEN <<"headers">> ELSE <<>>)
    \o (IF MdLink(c) THEN <<"links">> ELSE <<>>)
    \o (IF MdImage(c) THEN <<"images">> ELSE <<>>)

checkForMarkdown(terms) ==
    Flatten([i \in DOMAIN terms |->
        Flatten([k \in DOMAIN SectionOrder |->
            LET key == SectionOrder[k]
                secs == terms[i].sections
            IN  IF key \in DOMAIN secs /\ secs[key] # <<>>
                THEN LET names == MarkdownWarningNames(secs[key])
                     IN  [n \in DOMAIN names |->
                            Warn("markdown", terms[i].id, key, names[n], "", 0)]
                ELSE <<>>])])

\* a loader that never reads the corpus
loadExistingTermsNone(file) == <<>>

\* a loader that falls back on a stock corpus when the file cannot be read
loadExistingTermsStock(file) ==
    IF file.exists /\ file.parses THEN file.content
    ELSE <<[id |-> <<"c">>, category |-> "Navigation"]>>

\* loadExistingTerms: a missing or unreadable corpus is the empty corpus
loadExistingTerms(file) ==
    IF ~file.exists THEN <<>>
    ELSE IF ~file.parses THEN <<>>
    ELSE file.content

CrossRefErr(i, termId, target) ==
    [kind |-> "crossref", index |-> i, field |-> "relationships",
     message |-> "references unknown term", termId |-> termId, target |-> target]

\* allTermIds.has(rel.termId)
Resolves(target, allTermIds) == target \in allTermIds

\* the ids are collected while the terms are walked: a relationship resolves
\* only against the corpus and the terms up to its own
validateCrossReferencesInOrder(terms, existingTerms) ==
    LET existingTermIds == {existingTerms[i].id : i \in DOMAIN existingTerms}
    IN  Flatten([i \in DOMAIN terms |->
            LET rels == terms[i].relationships
                seen == {terms[j].id : j \in 1..i} \cup existingTermIds
            IN  Flatten([r \in DOMAIN rels |->
                    IF rels[r].termId \in seen
                    THEN <<>>
                    ELSE <<CrossRefErr(i - 1, terms[i].id, rels[r].termId)>>])])

validateCrossReferences(terms, existingTerms) ==
    LET batchTermIds == {terms[i].id : i \in DOMAIN terms}
        existingTermIds == {existingTerms[i].id : i \in DOMAIN existingTerms}
        allTermIds == batchTermIds \cup existingTermIds
    IN  Flatten([i \in DOMAIN terms |->
            LET rels == terms[i].relationships
            IN  Flatten([r \in DOMAIN rels |->
                    IF Resolves(rels[r].termId, allTermIds)
                    THEN <<>>
                    ELSE <<CrossRefErr(i - 1, terms[i].id, rels[r].termId)>>])])

QuizMinTerms == 4

CountCategory(ts, cat) == Cardinality({i \in DOMAIN ts : ts[i].category = cat})

\* a check that also warns about a category of exactly four terms
checkQuizRequirementsUpToFour(terms, existingTerms) ==
    LET all == existingTerms \o terms
        \* the keys of categoryCounts in insertion order
        keys == Dedup([i \in DOMAIN all |-> all[i].category])
        newCategories ==
            SelectSeq([i \in DOMAIN terms |-> terms[i].category],
                      LAMBDA cat : ~\E j \in DOMAIN existingTerms :
                                        existingTerms[j].category = cat)
        uniqueNewCategories == Dedup(newCategories)
    IN  Flatten([k \in DOMAIN keys |->
            LET count == CountCategory(all, keys[k])
            IN  IF count <= QuizMinTerms
                THEN <<QuizWarn("quiz", keys[k], count)>>
                ELSE <<>>])
        \o Flatten([k \in DOMAIN uniqueNewCategories |->
            LET newCategoryCount == CountCategory(terms, uniqueNewCategories[k])
            IN  IF newCategoryCount < QuizMinTerms
                THEN <<QuizWarn("newcategory", uniqueNewCategories[k], newCategoryCount)>>
                ELSE <<>>])

\* a check without the second pass over newly introduced categories
checkQuizRequirementsGenericOnly(terms, existingTerms) ==
    LET all == existingTerms \o terms
        \* the keys of categoryCounts in insertion order
        keys == Dedup([i \in DOMAIN all |-> all[i].category])
        newCategories ==
            SelectSeq([i \in DOMAIN terms |-> terms[i].category],
                      LAMBDA cat : ~\E j \in DOMAIN existingTerms :
                                        existingTerms[j].category = cat)
        uniqueNewCategories == Dedup(newCategories)
    IN  Flatten([k \in DOMAIN keys |->
            LET count == CountCategory(all, keys[k])
            IN  IF count < QuizMinTerms
                THEN <<QuizWarn("quiz", keys[k], count)>>
                ELSE <<>>])

\* checkQuizRequirements of validate-batch
checkQuizRequirements(terms, existingTerms) ==
    LET all == existingTerms \o terms
        \* the keys of categoryCounts in insertion order
        keys == Dedup([i \in DOMAIN all |-> all[i].category])
        newCategories ==
            SelectSeq([i \in DOMAIN terms |-> terms[i].category],
                      LAMBDA cat : ~\E j \in DOMAIN existingTerms :
                                        existingTerms[j].category = cat)
        uniqueNewCategories == Dedup(newCategories)
    IN  Flatten([k \in DOMAIN keys |->
            LET count == CountCategory(all, keys[k])
            IN  IF count < QuizMinTerms
                THEN <<QuizWarn("quiz", keys[k], count)>>
                ELSE <<>>])
        \o Flatten([k \in DOMAIN uniqueNewCategories |->
            LET newCategoryCount == CountCategory(terms, uniqueNewCategories[k])
            IN  IF newCategoryCount < QuizMinTerms
                THEN <<QuizWarn("newcategory", uniqueNewCategories[k], newCategoryCount)>>
                ELSE <<>>])

Report(valid, errors, warnings, termCount, categories, phases) ==
    [valid |-> valid, errors |-> errors, warnings |-> warnings,
     termCount |-> termCount, categories |-> categories, phases |-> phases]

NoReport == Report(FALSE, <<>>, <<>>, 0, <<>>, <<>>)

\* the early return left out
StructuralStopNever(errors) == FALSE

\* errors.length > 0 after the two structural passes: stop here
StructuralStop(errors) == Len(errors) > 0

\* validateBatch(filePath); phases lists the numbered phases it announced
\* a validator that returns as soon as a relationship dangles
validateBatchHaltsOnCrossRef(file, corpus) ==
    IF ~file.exists \/ ~file.parses
    THEN Report(FALSE, <<Err("load", 0, "", "Failed to load file")>>, <<>>, 0, <<>>, <<>>)
    ELSE
    LET terms == file.content
        jsonSchemaErrors == validateJsonSchema(terms)
        zodErrors == validateZodSchema(terms)
        errors == jsonSchemaErrors \o zodErrors
    IN  IF StructuralStop(errors)
        THEN Report(FALSE, errors, <<>>, 0, <<>>, <<1, 2>>)
        ELSE
        LET markdownWarnings == checkForMarkdown(terms)
            existingTerms == loadExistingTerms(corpus)
            crossRefErrors == validateCrossReferences(terms, existingTerms)
            quizWarnings == checkQuizRequirements(terms, existingTerms)
            allErrors == errors \o crossRefErrors
        IN  IF crossRefErrors # <<>>
            THEN Report(FALSE, allErrors, markdownWarnings, 0, <<>>, <<1, 2, 3, 4>>)
            ELSE Report(Len(allErrors) = 0, allErrors, markdownWarnings \o quizWarnings,
                        Len(terms), Dedup([i \in DOMAIN terms |-> terms[i].category]),
                        <<1, 2, 3, 4, 5>>)

validateBatch(file, corpus) ==
    IF ~file.exists \/ ~file.parses
    THEN Report(FALSE, <<Err("load", 0, "", "Failed to load file")>>, <<>>, 0, <<>>, <<>>)
    ELSE
    LET terms == file.content
        jsonSchemaErrors == validateJsonSchema(terms)
        zodErrors == validateZodSchema(terms)
        errors == jsonSchemaErrors \o zodErrors
    IN  IF StructuralStop(errors)
        THEN Report(FALSE, errors, <<>>, 0, <<>>, <<1, 2>>)
        ELSE
        LET markdownWarnings == checkForMarkdown(terms)
            existingTerms == loadExistingTerms(corpus)
            crossRefErrors == validateCrossReferences(terms, existingTerms)
            quizWarnings == checkQuizRequirements(terms, existingTerms)
            allErrors == errors \o crossRefErrors
        IN  Report(Len(allErrors) = 0, allErrors, markdownWarnings \o quizWarnings,
                   Len(terms), Dedup([i \in DOMAIN terms |-> terms[i].category]),
                   <<1, 2, 3, 4, 5>>)

(***************************************************************************)
(* update-manifest                                                         *)
(***************************************************************************)
Path(dir, name, ext) == [dir |-> dir, name |-> name, ext |-> ext]

\* path.basename(filePath, '.json')
extractBatchId(batchPath) ==
    IF batchPath.ext = ".json" /\ batchPath.name # ""
    THEN batchPath.name
    ELSE batchPath.name \o batchPath.ext

\* path.relative(process.cwd(), batchPath): batch paths are given relative
\* to the working directory, with forward slashes
RelativePath(batchPath) == batchPath.dir \o "/" \o batchPath.name \o batchPath.ext

\* an entry that lists the category of every term, repeated ones too
createManifestEntryPerTerm(batchPath, terms, now) ==
    [id |-> extractBatchId(batchPath),
     path |-> RelativePath(batchPath),
     createdAt |-> now,
     termCount |-> Len(terms),
     categories |-> [i \in DOMAIN terms |-> terms[i].category]]

createManifestEntry(batchPath, terms, now) ==
    [id |-> extractBatchId(batchPath),
     path |-> RelativePath(batchPath),
     createdAt |-> now,
     termCount |-> Len(terms),
     categories |-> Dedup([i \in DOMAIN terms |-> terms[i].category])]

\* the comparator with its operands swapped (oldest first)
CompareCreatedAtAscending(a, b) == a.createdAt - b.createdAt

\* the comparator of sortManifest: negative when a goes first
CompareCreatedAt(a, b) == b.createdAt - a.createdAt

\* Array.prototype.sort is stable: x goes behind every entry that does not
\* compare greater than it
RECURSIVE InsertSorted(_, _)
InsertSorted(sorted, x) ==
    IF sorted = <<>> THEN <<x>>
    ELSE IF CompareCreatedAt(Head(sorted), x) <= 0
         THEN <<Head(sorted)>> \o InsertSorted(Tail(sorted), x)
         ELSE <<x>> \o sorted

RECURSIVE sortManifest(_)
sortManifest(batches) ==
    IF batches = <<>> THEN <<>>
    ELSE InsertSorted(sortManifest(SubSeq(batches, 1, Len(batches) - 1)),
                      batches[Len(batches)])

\* a lookup that never finds the entry
ExistingIndexNeverFound(batches, entry) == 0

\* manifest.batches.findIndex(b => b.id === entry.id): the first place, counted
\* from 1, of an entry with the id; 0 stands for -1
ExistingIndex(batches, entry) ==
    IF \E i \in DOMAIN batches : batches[i].id = entry.id
    THEN CHOOSE i \in DOMAIN batches :
            /\ batches[i].id = entry.id
            /\ \A j \in 1..(i - 1) : batches[j].id # entry.id
    ELSE 0

\* existingIndex > 0 tested on the 0-based index: a match in the first place
\* is taken for no match
UpsertMissesFirst(batches, entry) ==
    LET existingIndex == ExistingIndex(batches, entry)
    IN  IF existingIndex >= 2
        THEN [batches EXCEPT ![existingIndex] = entry]
        ELSE Append(batches, entry)

\* an entry that is already present is left as it is
UpsertKeepsExisting(batches, entry) ==
    LET existingIndex == ExistingIndex(batches, entry)
    IN  IF existingIndex >= 1
        THEN batches
        ELSE Append(batches, entry)

\* every entry with the id is replaced, not the first one alone
UpsertReplacesEvery(batches, entry) ==
    IF \E i \in DOMAIN batches : batches[i].id = entry.id
    THEN [i \in DOMAIN batches |-> IF batches[i].id = entry.id THEN entry ELSE batches[i]]
    ELSE Append(batches, entry)

\* replace at existingIndex or push
Upsert(batches, entry) ==
    LET existingIndex == ExistingIndex(batches, entry)
    IN  IF existingIndex >= 1
        THEN [batches EXCEPT ![existingIndex] = entry]
        ELSE Append(batches, entry)

File(exists, parses, content) == [exists |-> exists, parses |-> parses, content |-> content]

\* an absent manifest is an error, like an unreadable one
UpdateThrowsOnAbsent(batchFile, manifest) ==
    \/ ~batchFile.parses
    \/ ~manifest.exists
    \/ ~manifest.parses

\* a manifest that does not parse is passed over, not reported
UpdateThrowsOnBatchOnly(batchFile, manifest) == ~batchFile.parses

\* updateManifest throws when a file it reads does not parse
UpdateThrows(batchFile, manifest) ==
    \/ ~batchFile.parses
    \/ manifest.exists /\ ~manifest.parses

\* the loaded manifest is dropped: the new file holds the new entry alone
UpdatedBatchesFresh(batchPath, batchFile, manifest, now) ==
    <<createManifestEntry(batchPath, batchFile.content, now)>>

\* every entry of the written manifest is stamped with the time of the merge
UpdatedBatchesRestamped(batchPath, batchFile, manifest, now) ==
    LET loaded == IF manifest.exists THEN manifest.content ELSE <<>>
        entry == createManifestEntry(batchPath, batchFile.content, now)
        sorted == sortManifest(Upsert(loaded, entry))
    IN  [i \in DOMAIN sorted |-> [sorted[i] EXCEPT !.createdAt = now]]

\* the batches array updateManifest writes
UpdatedBatches(batchPath, batchFile, manifest, now) ==
    LET loaded == IF manifest.exists THEN manifest.content ELSE <<>>
        entry == createManifestEntry(batchPath, batchFile.content, now)
    IN  sortManifest(Upsert(loaded, entry))

(***************************************************************************)
(* The inputs                                                              *)
(***************************************************************************)
Term(id, title, category, sections, relationships) ==
    [id |-> id, title |-> title, category |-> category, sections |-> sections,
     relationships |-> relationships]

Rel(termId) == [termId |-> termId, type |-> "related"]

IdA == <<"a">>
IdB == <<"b", "-", "1">>
IdC == <<"c">>

\* ids the kebab-case pattern rejects: an underscore (Flight_Level), a leading,
\* a trailing and a doubled hyphen
BadIds ==
    {<<"f", "_", "l">>, <<"-", "a">>, <<"a", "-">>, <<"a", "-", "-", "b">>}

PlainSections == [whatItIs |-> <<Plain(20)>>]

\* well-formed terms a, b, c; a second a relates to c, b relates to a
GoodTerms ==
    {Term(IdA, 5, "Navigation", PlainSections, <<>>),
     Term(IdA, 5, "Navigation", PlainSections, <<Rel(IdC)>>),
     Term(IdB, 5, "Weather", PlainSections, <<Rel(IdA)>>),
     Term(IdC, 5, "Navigation", PlainSections, <<>>)}

\* terms with one structural violation each
BadTerms ==
    {Term(id, 5, "Navigation", PlainSections, <<>>) : id \in BadIds}
    \cup {Term(IdB, 5, "navigation", PlainSections, <<>>),
          Term(IdB, 5, "Weather", [whatItIs |-> <<Plain(5)>>], <<>>),
          Term(IdB, 5, "Weather",
               [whatItIs |-> <<Mark(Backtick), Plain(20), Mark(Backtick)>>], <<>>)}

TermUniverse == GoodTerms \cup BadTerms

Missing == File(FALSE, FALSE, <<>>)
Unparsable == File(TRUE, FALSE, <<>>)
Parsed(content) == File(TRUE, TRUE, content)

\* the batch files of the validation scenarios
ValidateFiles ==
    {Missing, Unparsable} \cup {Parsed(ts) : ts \in SeqsUpTo(TermUniverse, MaxTerms)}

CorpusTerm(id, category) == [id |-> id, category |-> category]

Corpora ==
    {Missing, Unparsable,
     Parsed(<<CorpusTerm(IdC, "Navigation")>>),
     Parsed(<<CorpusTerm(IdA, "Navigation"), CorpusTerm(IdC, "Weather")>>)}

P1 == Path("data/batches", "b1", ".json")
P2 == Path("data/batches", "b2", ".json")
P3 == Path("data/batches", "b3", ".json")
\* another file with the base name of P1, hence with its batch id
P4 == Path("incoming", "b1", ".json")

MergePaths == {P1, P2, P3, P4}

\* the quiz scenarios: batches of one to four terms over two categories,
\* corpora of Navigation terms followed by Weather terms
QuizIds == <<<<"q", "1">>, <<"q", "2">>, <<"q", "3">>, <<"q", "4">>>>

QuizBatch(cats) ==
    Parsed([i \in DOMAIN cats |-> Term(QuizIds[i], 5, cats[i], PlainSections, <<>>)])

QuizFiles ==
    {QuizBatch(cats) : cats \in SeqsUpTo({"Navigation", "Weather"}, Len(QuizIds)) \ {<<>>}}

CorpusIdDigits == <<"1", "2", "3", "4", "5", "6", "7", "8", "9">>

QuizCorpus(n, w) ==
    Parsed([i \in 1..(n + w) |->
        CorpusTerm(<<"e", CorpusIdDigits[i]>>, IF i <= n THEN "Navigation" ELSE "Weather")])

QuizCorpora ==
    {Missing} \cup {QuizCorpus(n, w) : n \in {0, 3, 5}, w \in {0, 1, 4}}

\* definitions with markup: bold, italic (both kinds), a header, a link, an
\* image, and texts that hold markup characters without forming a pattern
MarkupContents ==
    {<<Mark("*"), Mark("*"), Plain(20), Mark("*"), Mark("*")>>,
     <<Mark("*"), Plain(20), Mark("*")>>,
     <<Mark("_"), Plain(20), Mark("_")>>,
     <<Plain(20), Mark("#"), Mark(" "), Plain(20)>>,
     <<Mark("["), Plain(20), Mark("]"), Mark("("), Plain(20), Mark(")")>>,
     <<Mark("!"), Mark("["), Plain(20), Mark("]"), Mark("("), Plain(20), Mark(")")>>,
     <<Plain(20), Mark("*")>>,
     <<Mark("_"), Plain(20)>>,
     <<Mark("#"), Plain(20)>>,
     <<Mark("["), Plain(20), Mark("]")>>,
     <<Mark("*"), Plain(20), Mark("\n"), Plain(20), Mark("*")>>}

\* batches of a plain term and a term with such a definition, which may
\* also stand in an optional section
MarkupFiles ==
    {Parsed(<<Term(IdA, 5, "Navigation", PlainSections, <<>>),
              Term(IdC, 5, "Navigation", secs, <<>>)>>) :
        secs \in {[whatItIs |-> c] : c \in MarkupContents}
                 \cup {[whatItIs |-> <<Plain(20)>>, location |-> c] : c \in MarkupContents}}

\* the batch files of the merge scenarios
OneTermBatch == Parsed(<<Term(IdA, 5, "Navigation", PlainSections, <<>>)>>)
ThreeTermBatch ==
    Parsed(<<Term(IdA, 5, "Navigation", PlainSections, <<>>),
             Term(IdB, 5, "Weather", PlainSections, <<>>),
             Term(IdC, 5, "Navigation", PlainSections, <<>>)>>)

MergeFiles == {Missing, Unparsable, OneTermBatch, ThreeTermBatch}

Times == 1..MaxTime

\* the length past which quiz prompts truncate a definition
TruncationLimit == 240

\* section lengths at the advisory boundary and at the schema's maximum
ContentLengths ==
    {TruncationLimit, TruncationLimit + 1, ContentMaxLen, ContentMaxLen + 1}

\* one-term batches whose definition has one of these lengths
LengthFiles ==
    {Parsed(<<Term(IdA, 5, "Navigation", [whatItIs |-> <<Plain(n)>>], <<>>)>>) :
        n \in ContentLengths}

(***************************************************************************)
(* The commands                                                            *)
(***************************************************************************)
Cmd(cmd, path, now, exit, reported, report) ==
    [cmd |-> cmd, path |-> path, now |-> now, exit |-> exit,
     reported |-> reported, report |-> report]

NoCmd == Cmd("none", P1, 0, 0, FALSE, NoReport)

\* a main that also fails a run whose report carries warnings
ValidateExitOnWarnings(result) ==
    IF ~result.valid \/ result.warnings # <<>> THEN 1 ELSE 0

\* process.exit of validate-batch's main
ValidateExit(result) == IF ~result.valid THEN 1 ELSE 0

\* npm run validate:batch <p>
Validate(p) ==
    LET file == batchFiles[p]
        result == validateBatch(file, corpusFile)
    IN  /\ last' = IF ~file.exists
                   THEN Cmd("validate", p, 0, 1, FALSE, NoReport)
                   ELSE Cmd("validate", p, 0, ValidateExit(result), TRUE, result)
        /\ prevManifest' = manifestFile
        /\ UNCHANGED <<batchFiles, corpusFile, manifestFile, procs, writers>>

\* npm run update-manifest <p>, run when the clock reads now
UpdateManifest(p, now) ==
    LET file == batchFiles[p]
        fails == ~file.exists \/ UpdateThrows(file, manifestFile)
    IN  /\ manifestFile' =
                IF fails THEN manifestFile
                ELSE Parsed(UpdatedBatches(p, file, manifestFile, now))
        /\ last' = Cmd("update-manifest", p, now, IF fails THEN 1 ELSE 0, FALSE, NoReport)
        /\ prevManifest' = manifestFile
        /\ UNCHANGED <<batchFiles, corpusFile, procs, writers>>

\* several batches, merged into an absent or empty manifest
InitMerge ==
    /\ batchFiles \in [MergePaths -> MergeFiles]
    /\ batchFiles[P1] = OneTermBatch
    /\ batchFiles[P2] = ThreeTermBatch
    /\ batchFiles[P4] = ThreeTermBatch
    /\ corpusFile = Missing
    /\ manifestFile \in {Missing, Parsed(<<>>)}

\* one batch, validated against a corpus and merged
InitValidate ==
    /\ batchFiles \in [{P1} -> ValidateFiles]
    /\ corpusFile \in Corpora
    /\ manifestFile = Missing

\* one batch with a long definition, validated and merged
InitLength ==
    /\ batchFiles \in [{P1} -> LengthFiles]
    /\ corpusFile \in {Missing, Parsed(<<CorpusTerm(IdC, "Navigation")>>)}
    /\ manifestFile = Missing

\* one batch, validated against a corpus with populated categories
InitQuiz ==
    /\ batchFiles \in [{P1} -> QuizFiles]
    /\ corpusFile \in QuizCorpora
    /\ manifestFile = Missing

\* one batch with markup characters in a section
InitMarkup ==
    /\ batchFiles \in [{P1} -> MarkupFiles]
    /\ corpusFile = Missing
    /\ manifestFile = Missing

\* several batches, merged while the manifest on disk does not parse
InitBroken ==
    /\ batchFiles \in [MergePaths -> MergeFiles]
    /\ batchFiles[P1] = OneTermBatch
    /\ batchFiles[P2] = ThreeTermBatch
    /\ batchFiles[P4] = ThreeTermBatch
    /\ corpusFile = Missing
    /\ manifestFile = Unparsable

\* the update-manifest processes: one command at a time runs none of them
Procs == {1, 2}

Proc(pc, path, now, loaded, seen, exit) ==
    [pc |-> pc, path |-> path, now |-> now, loaded |-> loaded, seen |-> seen,
     exit |-> exit]

Idle == Proc("idle", P1, 0, Missing, 0, 0)

Init ==
    /\ InitMerge \/ InitValidate \/ InitLength \/ InitQuiz \/ InitBroken
       \/ InitMarkup
    /\ prevManifest = manifestFile
    /\ last = NoCmd
    /\ procs = [i \in Procs |-> Idle]
    /\ writers = <<>>

Next ==
    \/ \E p \in DOMAIN batchFiles : Validate(p)
    \/ \E p \in DOMAIN batchFiles, now \in Times : UpdateManifest(p, now)

Spec == Init /\ [][Next]_vars

(***************************************************************************)
(* Merges into a manifest that was not written by update-manifest alone    *)
(* and holds several entries with one id.                                  *)
(***************************************************************************)
Entry(p, n, now) == createManifestEntry(p, [i \in 1..n |-> OneTermBatch.content[1]], now)

\* manifests with two or three entries of b1, next to entries of b2, and one
\* with two entries of b3
DuplicateManifests ==
    {Parsed(<<Entry(P1, 1, 3), Entry(P4, 3, 1)>>),
     Parsed(<<Entry(P1, 1, 3), Entry(P2, 3, 2), Entry(P4, 3, 1)>>),
     Parsed(<<Entry(P1, 1, 3), Entry(P1, 2, 2), Entry(P1, 1, 1)>>),
     Parsed(<<Entry(P3, 1, 2), Entry(P2, 3, 2), Entry(P3, 2, 1)>>)}

InitLoaded ==
    /\ batchFiles \in [{P1, P3} -> {OneTermBatch, ThreeTermBatch}]
    /\ batchFiles[P1] = OneTermBatch
    /\ corpusFile = Missing
    /\ manifestFile \in DuplicateManifests
    /\ prevManifest = manifestFile
    /\ last = NoCmd
    /\ procs = [i \in Procs |-> Idle]
    /\ writers = <<>>

SpecLoaded == InitLoaded /\ [][Next]_vars

(***************************************************************************)
(* Two update-manifest processes side by side.  A process reads the batch  *)
(* and the manifest, builds its entry, upserts and sorts in memory, and    *)
(* writes the whole file; nothing locks the file in between.               *)
(***************************************************************************)
\* main up to the entry: existsSync(batchPath), loadJsonFile of the batch,
\* existsSync and loadJsonFile of the manifest, createManifestEntry at now
Load(i, p, now) ==
    LET file == batchFiles[p]
        fails == ~file.exists \/ UpdateThrows(file, manifestFile)
    IN  /\ procs[i].pc = "idle"
        /\ procs' = [procs EXCEPT ![i] =
                IF fails THEN Proc("done", p, now, Missing, Len(writers), 1)
                ELSE Proc("loaded", p, now, manifestFile, Len(writers), 0)]
        /\ UNCHANGED <<batchFiles, corpusFile, manifestFile, prevManifest, last, writers>>

\* the manifest is loaded again just before it is written
SaveReloaded(i) ==
    LET me == procs[i]
    IN  /\ me.pc = "loaded"
        /\ manifestFile' =
                Parsed(UpdatedBatches(me.path, batchFiles[me.path], manifestFile, me.now))
        /\ procs' = [procs EXCEPT ![i].pc = "done"]
        /\ writers' = Append(writers, i)
        /\ UNCHANGED <<batchFiles, corpusFile, prevManifest, last>>

\* the rest of updateManifest: upsert, sortManifest, saveJsonFile
Save(i) ==
    LET me == procs[i]
    IN  /\ me.pc = "loaded"
        /\ manifestFile' =
                Parsed(UpdatedBatches(me.path, batchFiles[me.path], me.loaded, me.now))
        /\ procs' = [procs EXCEPT ![i].pc = "done"]
        /\ writers' = Append(writers, i)
        /\ UNCHANGED <<batchFiles, corpusFile, prevManifest, last>>

\* the manifests the processes may find: none, an empty one, one entry
FoundManifests ==
    {Missing, Parsed(<<>>),
     Parsed(<<createManifestEntry(P3, ThreeTermBatch.content, 1)>>)}

InitConcurrent ==
    /\ batchFiles \in [MergePaths -> MergeFiles]
    /\ batchFiles[P1] = OneTermBatch
    /\ batchFiles[P2] = ThreeTermBatch
    /\ batchFiles[P4] = ThreeTermBatch
    /\ corpusFile = Missing
    /\ manifestFile \in FoundManifests
    /\ prevManifest = manifestFile
    /\ last = NoCmd
    /\ procs = [i \in Procs |-> Idle]
    /\ writers = <<>>

NextConcurrent ==
    \/ \E i \in Procs, p \in DOMAIN batchFiles, now \in Times : Load(i, p, now)
    \/ \E i \in Procs : Save(i)

SpecConcurrent == InitConcurrent /\ [][NextConcurrent]_vars

(***************************************************************************)
(* Properties of the manifest                                              *)
(***************************************************************************)
Batches(m) == IF m.exists /\ m.parses THEN m.content ELSE <<>>

EntryIds(batches) == {batches[i].id : i \in DOMAIN batches}

CreatedAts(batches) == [i \in DOMAIN batches |-> batches[i].createdAt]

Merged == last.cmd = "update-manifest" /\ last.exit = 0

MergedId == extractBatchId(last.path)

\* C1: starting from an absent or empty manifest, after any sequence of
\* updateManifest runs no two entries of the persisted manifest share an id.
C1_UniqueIds ==
    LET bs == Batches(manifestFile)
    IN  \A i, j \in DOMAIN bs : bs[i].id = bs[j].id => i = j

\* a batch was merged again into a manifest that already held it and others
C1_Witness ==
    /\ Merged
    /\ MergedId \in EntryIds(Batches(prevManifest))
    /\ Len(Batches(manifestFile)) >= 2

\* C2: after every updateManifest run the persisted manifest is ordered
\* descending by createdAt; an entry dated between two existing entries is
\* placed between them (1 and 3 plus a new 2 gives 3, 2, 1).
C2_SortedDescending ==
    LET bs == Batches(manifestFile)
    IN  /\ \A i \in 1..(Len(bs) - 1) : bs[i].createdAt >= bs[i + 1].createdAt
        /\ (/\ Merged
            /\ Range(CreatedAts(Batches(prevManifest))) = {1, 3}
            /\ Len(Batches(prevManifest)) = 2
            /\ MergedId \notin EntryIds(Batches(prevManifest))
            /\ last.now = 2)
           => /\ CreatedAts(bs) = <<3, 2, 1>>
              /\ bs[2].id = MergedId

\* the example: entries dated 1 and 3, then a new entry dated 2
C2_Witness ==
    /\ Merged
    /\ CreatedAts(Batches(prevManifest)) = <<3, 1>>
    /\ MergedId \notin EntryIds(Batches(prevManifest))
    /\ last.now = 2
    /\ CreatedAts(Batches(manifestFile)) = <<3, 2, 1>>

\* C3: merging the same batch file twice in succession into an empty manifest
\* leaves exactly one entry for that batch id; merging a batch id that is
\* already present leaves the set of ids and the number of entries unchanged.
C3_IdempotentUpsert ==
    LET before == Batches(prevManifest)
        after == Batches(manifestFile)
    IN  (Merged /\ MergedId \in EntryIds(before)) =>
            /\ EntryIds(after) = EntryIds(before)
            /\ Len(after) = Len(before)
            /\ (Len(before) = 1 => Len(after) = 1 /\ after[1].id = MergedId)

\* the second merge of the only batch of the manifest
C3_Witness ==
    /\ Merged
    /\ Len(Batches(prevManifest)) = 1
    /\ Batches(prevManifest)[1].id = MergedId
    /\ Len(Batches(manifestFile)) = 1
    /\ Batches(manifestFile)[1].id = MergedId

\* C4: the manifest is append-only: every id present before a command is
\* present after it.
C4_AppendOnly ==
    EntryIds(Batches(prevManifest)) \subseteq EntryIds(Batches(manifestFile))

\* a merge into a manifest that held two other batches
C4_Witness ==
    /\ Merged
    /\ Len(Batches(prevManifest)) = 2
    /\ MergedId \notin EntryIds(Batches(prevManifest))
    /\ Len(Batches(manifestFile)) = 3

(***************************************************************************)
(* Properties of validation                                                *)
(***************************************************************************)
Validated == last.cmd = "validate" /\ last.reported

\* the terms validateBatch read, when the batch file parsed
ValidatedTerms == batchFiles[last.path].content

Parses(file) == file.exists /\ file.parses

StructuralKinds == {"jsonschema", "zod"}

ErrorsOfKind(errors, kinds) == {i \in DOMAIN errors : errors[i].kind \in kinds}

CorpusIds == {t.id : t \in Range(loadExistingTerms(corpusFile))}

BatchIds(terms) == {terms[i].id : i \in DOMAIN terms}

\* C5: a batch with a term whose id already exists in the corpus is rejected
\* by validateBatch or by updateManifest: it never ends up both reported
\* valid and merged into the manifest.
C5_CorpusDuplicateRejected ==
    ~(/\ Validated
      /\ Parses(batchFiles[last.path])
      /\ BatchIds(ValidatedTerms) \cap CorpusIds # {}
      /\ last.report.valid
      /\ extractBatchId(last.path) \in EntryIds(Batches(manifestFile)))

\* C6: a manifest entry is written only for a batch that validateBatch
\* reports valid: no entry is written for a batch with a structural or
\* cross-reference error.
C6_MergedOnlyIfValid ==
    Merged => validateBatch(batchFiles[last.path], corpusFile).valid

\* an id the data model's kebab-case rule rejects: something other than
\* lowercase alphanumeric segments joined by single hyphens
FailsKebabCase(id) ==
    \/ id = <<>>
    \/ \E i \in DOMAIN id : id[i] \notin LowerAlnum \cup {"-"}
    \/ id[1] = "-"
    \/ id[Len(id)] = "-"
    \/ \E i \in 1..(Len(id) - 1) : id[i] = "-" /\ id[i + 1] = "-"

BadIdIndexes(terms) == {i \in DOMAIN terms : FailsKebabCase(terms[i].id)}

\* C7: for a batch with a term whose id fails the kebab-case pattern,
\* validateBatch returns valid = false with a structural error (the Zod pass
\* reports each such id) and the manifest is the same before and after.
C7_BadIdRejected ==
    (Validated /\ Parses(batchFiles[last.path]) /\ BadIdIndexes(ValidatedTerms) # {}) =>
        /\ ~last.report.valid
        /\ last.exit = 1
        /\ ErrorsOfKind(last.report.errors, StructuralKinds) # {}
        /\ \A i \in BadIdIndexes(ValidatedTerms) :
              \E e \in Range(last.report.errors) :
                  e.kind = "zod" /\ e.index = i - 1 /\ e.field = "id"
        /\ manifestFile = prevManifest

\* a batch with a bad id was validated while the manifest held an entry
C7_Witness ==
    /\ Validated /\ Parses(batchFiles[last.path])
    /\ BadIdIndexes(ValidatedTerms) # {}
    /\ ~last.report.valid
    /\ Batches(manifestFile) # <<>>

DuplicateIds(terms) == \E i, j \in DOMAIN terms : i # j /\ terms[i].id = terms[j].id

\* C8: for a batch in which two terms share an id, validation fails, even
\* when each term on its own satisfies every per-term rule.
C8_DuplicateIdRejected ==
    (Validated /\ Parses(batchFiles[last.path]) /\ DuplicateIds(ValidatedTerms)) =>
        /\ ~last.report.valid
        /\ last.exit = 1

\* two terms with one id, each well formed: the only error is the batch's
C8_Witness ==
    /\ Validated /\ Parses(batchFiles[last.path])
    /\ DuplicateIds(ValidatedTerms)
    /\ \A i \in DOMAIN ValidatedTerms :
          /\ ZodTermErrors(ValidatedTerms[i], i - 1) = <<>>
          /\ JsonSchemaTermErrors(ValidatedTerms[i], i - 1) = <<>>
    /\ ValidatedTerms[1] # ValidatedTerms[2]
    /\ ~last.report.valid
    /\ Len(last.report.errors) = 1

\* the relationships of terms, as (term index, relationship index)
RelationshipsOf(terms) ==
    UNION {{<<i, r>> : r \in DOMAIN terms[i].relationships} : i \in DOMAIN terms}

TargetOf(terms, d) == terms[d[1]].relationships[d[2]].termId

CrossRefErrors(errors) == SelectSeq(errors, LAMBDA e : e.kind = "crossref")

Reports(errors, i, target) ==
    \E e \in Range(errors) : e.kind = "crossref" /\ e.index = i - 1 /\ e.target = target

\* C9: for a structurally valid batch, validateCrossReferences reports an
\* error for a relationship exactly when its termId is neither a batch term
\* id nor a corpus term id; with a term of that id added to the batch (in
\* front or behind) or to the corpus, the relationship resolves.
C9_CrossReferences ==
    (Validated /\ 4 \in Range(last.report.phases)) =>
        LET terms == ValidatedTerms
            existing == loadExistingTerms(corpusFile)
            known == BatchIds(terms) \cup CorpusIds
            dangling == {d \in RelationshipsOf(terms) : TargetOf(terms, d) \notin known}
        IN  /\ \A d \in RelationshipsOf(terms) :
                  Reports(last.report.errors, d[1], TargetOf(terms, d)) <=> d \in dangling
            /\ Len(CrossRefErrors(last.report.errors)) = Cardinality(dangling)
            /\ \A d \in dangling :
                  LET target == TargetOf(terms, d)
                      added == Term(target, 5, "Navigation", PlainSections, <<>>)
                  IN  /\ ~Reports(validateCrossReferences(terms \o <<added>>, existing),
                                  d[1], target)
                      /\ ~Reports(validateCrossReferences(<<added>> \o terms, existing),
                                  d[1] + 1, target)
                      /\ ~Reports(validateCrossReferences(
                                      terms, existing \o <<CorpusTerm(target, "Navigation")>>),
                                  d[1], target)

\* a relationship that resolves only through a term that follows it in the
\* batch, next to states where it dangles
C9_Witness ==
    /\ Validated /\ 4 \in Range(last.report.phases)
    /\ Len(ValidatedTerms) = 2
    /\ ValidatedTerms[1].relationships # <<>>
    /\ ValidatedTerms[1].relationships[1].termId = ValidatedTerms[2].id
    /\ ValidatedTerms[1].relationships[1].termId \notin CorpusIds
    /\ last.report.valid

\* C10: if the JSON Schema pass or the Zod pass reports a violation,
\* validateBatch returns valid = false at once: no later phase runs, and the
\* result carries no warnings, termCount 0 and no categories.
C10_StructuralFailFast ==
    (Validated /\ ErrorsOfKind(last.report.errors, StructuralKinds) # {}) =>
        /\ ~last.report.valid
        /\ last.report.phases = <<1, 2>>
        /\ last.report.warnings = <<>>
        /\ last.report.termCount = 0
        /\ last.report.categories = <<>>
        /\ ErrorsOfKind(last.report.errors, {"crossref"}) = {}

\* a structural failure of a batch whose later phases had something to say:
\* a dangling relationship and an under-populated category
C10_Witness ==
    /\ Validated /\ ErrorsOfKind(last.report.errors, StructuralKinds) # {}
    /\ Len(ValidatedTerms) = 2
    /\ validateCrossReferences(ValidatedTerms, loadExistingTerms(corpusFile)) # <<>>
    /\ checkQuizRequirements(ValidatedTerms, loadExistingTerms(corpusFile)) # <<>>
    /\ last.report.warnings = <<>>
    /\ last.report.termCount = 0

\* C11: warnings never block: the valid flag of validateBatch is true exactly
\* when the structural passes and the cross-reference pass report no error,
\* and the validate command exits 0 exactly when the batch is valid, whatever
\* the number of warnings.
C11_WarningsNeverBlock ==
    (Validated /\ Parses(batchFiles[last.path])) =>
        LET terms == ValidatedTerms
            existing == loadExistingTerms(corpusFile)
            clean == /\ validateJsonSchema(terms) = <<>>
                     /\ validateZodSchema(terms) = <<>>
                     /\ validateCrossReferences(terms, existing) = <<>>
        IN  /\ last.report.valid <=> clean
            /\ last.report.valid <=> last.report.errors = <<>>
            /\ last.exit = 0 <=> last.report.valid

\* a batch without errors and with two warnings was reported valid
C11_Witness ==
    /\ Validated /\ Parses(batchFiles[last.path])
    /\ last.report.errors = <<>>
    /\ Len(last.report.warnings) >= 2
    /\ last.report.valid
    /\ last.exit = 0

\* the sections of the validated batch, as (term index, section name)
SectionsOf(terms) ==
    UNION {{<<i, k>> : k \in DOMAIN terms[i].sections} : i \in DOMAIN terms}

LengthOf(terms, d) == ContentLength(terms[d[1]].sections[d[2]])

\* a warning about that section which is not one of the markup warnings
LengthWarned(warnings, terms, d) ==
    \E w \in Range(warnings) :
        /\ w.kind \notin {"markdown", "quiz", "newcategory"}
        /\ w.termId = terms[d[1]].id
        /\ w.section = d[2]

\* C12: a section content of 241 to 2000 characters yields a truncation-risk
\* warning in the validation result without making the batch invalid, while
\* a section content of 2001 characters is a blocking structural error.
C12_LengthAdvisory ==
    (Validated /\ Parses(batchFiles[last.path])) =>
        \A d \in SectionsOf(ValidatedTerms) :
            LET n == LengthOf(ValidatedTerms, d)
            IN  /\ (/\ n > TruncationLimit /\ n <= ContentMaxLen
                    /\ 5 \in Range(last.report.phases))
                   => LengthWarned(last.report.warnings, ValidatedTerms, d)
                /\ n > ContentMaxLen
                   => /\ ~last.report.valid
                      /\ ErrorsOfKind(last.report.errors, StructuralKinds) # {}

(***************************************************************************)
(* Properties of the quiz-readiness audit                                  *)
(***************************************************************************)
Audited == Validated /\ 5 \in Range(last.report.phases)

\* the number of terms of a category in the corpus and in the batch
InCorpus(cat) ==
    IF Parses(corpusFile)
    THEN Cardinality({i \in DOMAIN corpusFile.content :
                        corpusFile.content[i].category = cat})
    ELSE 0

InBatch(cat) ==
    Cardinality({i \in DOMAIN ValidatedTerms : ValidatedTerms[i].category = cat})

\* the positions of the warnings of a kind about a category
QuizWarnings(kind, cat) ==
    {i \in DOMAIN last.report.warnings :
        last.report.warnings[i].kind = kind /\ last.report.warnings[i].category = cat}

C14_NewCategoryWarning ==
    Audited =>
        \A cat \in VALID_CATEGORIES :
            LET new == QuizWarnings("newcategory", cat)
                generic == QuizWarnings("quiz", cat)
            IN  /\ (InBatch(cat) >= 1 /\ InCorpus(cat) = 0 /\ InBatch(cat) < 4) =>
                        /\ Cardinality(new) = 1
                        /\ Cardinality(generic) = 1
                        /\ new \cap generic = {}
                        /\ \A i \in new :
                              /\ last.report.warnings[i].count = InBatch(cat)
                              /\ last.report.warnings[i].need = 4 - InBatch(cat)
                /\ (InCorpus(cat) >= 1 \/ InBatch(cat) >= 4) => new = {}

\* two terms of a category new to the corpus, one of a category the corpus
\* holds once: both are short, only the first is new
C14_Witness ==
    /\ Audited
    /\ InBatch("Navigation") = 2 /\ InCorpus("Navigation") = 0
    /\ InBatch("Weather") = 1 /\ InCorpus("Weather") = 1
    /\ Cardinality(QuizWarnings("newcategory", "Navigation")) = 1
    /\ Cardinality(QuizWarnings("quiz", "Navigation")) = 1
    /\ QuizWarnings("newcategory", "Weather") = {}
    /\ Cardinality(QuizWarnings("quiz", "Weather")) = 1

\* the warnings of the audit, generic or about a new category
QuizReadinessWarnings ==
    {i \in DOMAIN last.report.warnings :
        last.report.warnings[i].kind \in {"quiz", "newcategory"}}

\* a batch of one term, of a category with five corpus terms
OneMoreOfFive ==
    /\ Audited
    /\ Len(ValidatedTerms) = 1
    /\ InCorpus(ValidatedTerms[1].category) = 5

\* C15 as stated: a batch that adds 1 term to a category with 5 corpus terms
\* produces no quiz-readiness warning at all, whatever the rest of the corpus
\* contains.
C15_NoWarningAtAll ==
    OneMoreOfFive => QuizReadinessWarnings = {}

\* C15, amended: such a batch produces no quiz-readiness warning about its
\* own category; the warnings it does produce are the generic ones about the
\* other corpus categories of fewer than 4 terms, one each, so that there is
\* none at all when every other corpus category has 4 terms or more.
C15_NoWarningForCategory ==
    OneMoreOfFive =>
        LET own == ValidatedTerms[1].category
        IN  /\ QuizWarnings("quiz", own) = {}
            /\ \A cat \in VALID_CATEGORIES : QuizWarnings("newcategory", cat) = {}
            /\ \A i \in QuizReadinessWarnings :
                  LET cat == last.report.warnings[i].category
                  IN  cat # own /\ InCorpus(cat) >= 1 /\ InCorpus(cat) < 4
            /\ (\A cat \in VALID_CATEGORIES \ {own} : InCorpus(cat) = 0 \/ InCorpus(cat) >= 4)
                  => QuizReadinessWarnings = {}

\* one more Navigation term for a corpus of five, whose only Weather term
\* draws the one warning
C15_Witness ==
    /\ OneMoreOfFive
    /\ ValidatedTerms[1].category = "Navigation"
    /\ InCorpus("Weather") = 1
    /\ Cardinality(QuizReadinessWarnings) = 1
    /\ Cardinality(QuizWarnings("quiz", "Weather")) = 1

(***************************************************************************)
(* Properties of a single merge                                            *)
(***************************************************************************)
\* C17: when the manifest file does not exist, updateManifest of a readable
\* batch succeeds, taking the manifest for empty: the persisted manifest
\* holds exactly one entry, the one of the merged batch.
C17_AbsentManifest ==
    (/\ last.cmd = "update-manifest"
     /\ ~prevManifest.exists
     /\ Parses(batchFiles[last.path])) =>
        /\ last.exit = 0
        /\ Parses(manifestFile)
        /\ Len(manifestFile.content) = 1
        /\ manifestFile.content[1].id = MergedId
        /\ manifestFile.content[1].termCount = Len(batchFiles[last.path].content)

\* the first merge of a three-term batch, no manifest being there
C17_Witness ==
    /\ Merged
    /\ ~prevManifest.exists
    /\ Len(Batches(manifestFile)) = 1
    /\ Batches(manifestFile)[1].id = MergedId
    /\ Batches(manifestFile)[1].termCount = 3

\* the relationships of the batch all target ids of the batch
SelfContained(terms) ==
    \A d \in RelationshipsOf(terms) : TargetOf(terms, d) \in BatchIds(terms)

\* C18: when the corpus is missing or unreadable, validation does not abort:
\* the corpus is taken for empty, the cross-reference check and the quiz
\* audit run against the batch alone, and a structurally clean batch whose
\* relationships all target ids inside the batch is reported valid.
C18_CorpusDegradesToEmpty ==
    (Validated /\ Parses(batchFiles[last.path]) /\ ~Parses(corpusFile)) =>
        LET terms == ValidatedTerms
            clean == validateJsonSchema(terms) = <<>> /\ validateZodSchema(terms) = <<>>
        IN  /\ loadExistingTerms(corpusFile) = <<>>
            /\ clean =>
                  /\ last.report.phases = <<1, 2, 3, 4, 5>>
                  /\ \A d \in RelationshipsOf(terms) :
                        Reports(last.report.errors, d[1], TargetOf(terms, d))
                            <=> TargetOf(terms, d) \notin BatchIds(terms)
                  /\ \A cat \in VALID_CATEGORIES :
                        (InBatch(cat) >= 1 /\ InBatch(cat) < 4) <=>
                            QuizWarnings("quiz", cat) # {}
                  /\ SelfContained(terms) => last.report.valid /\ last.exit = 0

\* without a readable corpus: a batch whose one relationship targets its
\* other term was reported valid
C18_Witness ==
    /\ Validated /\ Parses(batchFiles[last.path]) /\ ~Parses(corpusFile)
    /\ RelationshipsOf(ValidatedTerms) # {}
    /\ SelfContained(ValidatedTerms)
    /\ last.report.valid
    /\ last.exit = 0

\* the place of the entry of an id in a manifest that holds it
PlaceOf(batches, id) == CHOOSE i \in DOMAIN batches : batches[i].id = id

\* C19: merging a batch id that is already in the manifest replaces the
\* createdAt of its entry with the time of the new merge, so the entry can
\* move: when that time is later than every other entry's createdAt the
\* entry becomes the first one. The set of ids stays the same.
C19_RemergeRestamps ==
    LET before == Batches(prevManifest)
        after == Batches(manifestFile)
    IN  (Merged /\ MergedId \in EntryIds(before)) =>
            /\ EntryIds(after) = EntryIds(before)
            /\ after[PlaceOf(after, MergedId)].createdAt = last.now
            /\ (\A i \in DOMAIN before :
                    before[i].id # MergedId => before[i].createdAt < last.now)
                => after[1].id = MergedId

\* the last of three entries was merged again, later than the others, and
\* moved to the front
C19_Witness ==
    /\ Merged
    /\ Len(Batches(prevManifest)) = 3
    /\ Batches(prevManifest)[3].id = MergedId
    /\ Batches(prevManifest)[3].path = RelativePath(last.path)
    /\ Batches(prevManifest)[3].termCount = Len(batchFiles[last.path].content)
    /\ Batches(manifestFile)[1].id = MergedId
    /\ Batches(manifestFile)[1].createdAt > Batches(prevManifest)[3].createdAt

\* C20: a merge of batch id X leaves every entry with another id as it was
\* (id, path, createdAt, termCount and categories), and the number of entries
\* grows by 0 when X was present and by exactly 1 otherwise.
C20_Frame ==
    LET before == Batches(prevManifest)
        after == Batches(manifestFile)
    IN  Merged =>
            /\ \A i \in DOMAIN before :
                  before[i].id # MergedId =>
                      \E j \in DOMAIN after :
                          /\ after[j].id = before[i].id
                          /\ after[j].path = before[i].path
                          /\ after[j].createdAt = before[i].createdAt
                          /\ after[j].termCount = before[i].termCount
                          /\ after[j].categories = before[i].categories
            /\ \A j \in DOMAIN after :
                  after[j].id # MergedId => \E i \in DOMAIN before : before[i] = after[j]
            /\ Len(after) = Len(before) + (IF MergedId \in EntryIds(before) THEN 0 ELSE 1)

\* the entry between two others was replaced by one of another file, with
\* another term count, at another time
C20_Witness ==
    /\ Merged
    /\ Len(Batches(prevManifest)) = 3
    /\ Batches(prevManifest)[2].id = MergedId
    /\ Batches(prevManifest)[2].path # RelativePath(last.path)
    /\ Batches(prevManifest)[2].createdAt # last.now
    /\ Len(Batches(manifestFile)) = 3

(***************************************************************************)
(* Properties of concurrent merges                                         *)
(***************************************************************************)
\* what a process that loaded writes
WrittenBy(i) ==
    Parsed(UpdatedBatches(procs[i].path, batchFiles[procs[i].path],
                          procs[i].loaded, procs[i].now))

WriterId(i) == extractBatchId(procs[i].path)

\* both processes loaded the manifest before either wrote it, for batches of
\* different ids, and both have written
BothLoadedFirst ==
    /\ Len(writers) = 2
    /\ \A i \in Procs : procs[i].seen = 0
    /\ WriterId(1) # WriterId(2)

\* C16: of two updateManifest runs against one manifest file the later
\* writer wins: the manifest is exactly what the last writer wrote from the
\* manifest it had loaded.  When both loaded before either wrote, for
\* different batch ids, the final manifest holds the ids the later writer
\* had loaded and its own: the earlier writer's id is not in it, unless the
\* manifest they loaded held that id already.
C16_LastWriterWins ==
    /\ writers # <<>> => manifestFile = WrittenBy(writers[Len(writers)])
    /\ BothLoadedFirst =>
          LET first == writers[1]
              second == writers[2]
              final == Batches(manifestFile)
          IN  /\ EntryIds(final) =
                    EntryIds(Batches(procs[second].loaded)) \cup {WriterId(second)}
              /\ WriterId(first) \notin EntryIds(Batches(procs[second].loaded))
                    => WriterId(first) \notin EntryIds(final)

\* both loaded the empty manifest, then b1 was written, then b2: the final
\* manifest holds b2 alone
C16_Witness ==
    /\ BothLoadedFirst
    /\ \A i \in Procs : Batches(procs[i].loaded) = <<>>
    /\ WriterId(writers[1]) = "b1"
    /\ EntryIds(Batches(manifestFile)) = {"b2"}

(***************************************************************************)
(* Properties of the manifest entry and of failing merges                  *)
(***************************************************************************)
\* C21: the manifest entry built for a batch has the base name of the batch
\* file without .json as its id, the number of terms of the batch as its
\* termCount, the categories of the batch's terms, each exactly once and no
\* other, as its categories, and the time of the merge as its createdAt.
C21_ManifestEntry ==
    Merged =>
        LET after == Batches(manifestFile)
            terms == batchFiles[last.path].content
            entry == after[PlaceOf(after, MergedId)]
        IN  /\ MergedId \in EntryIds(after)
            /\ last.path.ext = ".json" => entry.id = last.path.name
            /\ entry.termCount = Len(terms)
            /\ Range(entry.categories) = {terms[i].category : i \in DOMAIN terms}
            /\ \A i, j \in DOMAIN entry.categories :
                  entry.categories[i] = entry.categories[j] => i = j
            /\ entry.createdAt = last.now

\* the entry of a batch of three terms over two categories
C21_Witness ==
    /\ Merged
    /\ Len(batchFiles[last.path].content) = 3
    /\ \E i \in DOMAIN Batches(manifestFile) :
          /\ Batches(manifestFile)[i].id = "b2"
          /\ Batches(manifestFile)[i].id = MergedId
          /\ Batches(manifestFile)[i].termCount = 3
          /\ Batches(manifestFile)[i].categories = <<"Navigation", "Weather">>
          /\ Batches(manifestFile)[i].createdAt = last.now

\* the reasons for which update-manifest fails
BatchMissing == ~batchFiles[last.path].exists

BatchUnparsable == batchFiles[last.path].exists /\ ~batchFiles[last.path].parses

ManifestUnparsable == prevManifest.exists /\ ~prevManifest.parses

\* C22: when update-manifest fails (batch file missing, batch file or
\* existing manifest not parseable) it exits with code 1 and leaves the
\* persisted manifest exactly as it was; the manifest is written only on the
\* path that exits 0.
C22_FailureLeavesManifest ==
    last.cmd = "update-manifest" =>
        /\ (BatchMissing \/ BatchUnparsable \/ ManifestUnparsable) =>
              /\ last.exit = 1
              /\ manifestFile = prevManifest
        /\ manifestFile # prevManifest => last.exit = 0
        /\ last.exit \in {0, 1}
        /\ last.exit = 0 => ~(BatchMissing \/ BatchUnparsable \/ ManifestUnparsable)

\* a readable batch could not be merged into a manifest that does not parse
C22_Witness ==
    /\ last.cmd = "update-manifest"
    /\ Parses(batchFiles[last.path])
    /\ ManifestUnparsable
    /\ last.exit = 1
    /\ manifestFile = prevManifest

(***************************************************************************)
(* Properties of the markdown sweep                                        *)
(***************************************************************************)
MarkdownWarnings(warnings) == SelectSeq(warnings, LAMBDA w : w.kind = "markdown")

\* the characters the patterns of checkForMarkdown are made of
MarkupCharacters == {"*", "_", "#", "[", "]", "(", ")", "!"}

HasMarkupCharacter(c) == \E i \in DOMAIN c : c[i].ch \in MarkupCharacters

\* C23: the markdown sweep never finds anything on a batch that passed the
\* structural passes: a section that matches a pattern of checkForMarkdown
\* is a hard error of the Zod plain-text refinement, which stops validation
\* before phase 3, so the markdown warnings of every batch that reaches
\* phase 3 are empty.
C23_SweepFindsNothing ==
    (Validated /\ Parses(batchFiles[last.path])) =>
        /\ 3 \in Range(last.report.phases) =>
              /\ MarkdownWarnings(last.report.warnings) = <<>>
              /\ checkForMarkdown(ValidatedTerms) = <<>>
        /\ \A d \in SectionsOf(ValidatedTerms) :
              LET c == ValidatedTerms[d[1]].sections[d[2]]
              IN  MarkdownWarningNames(c) # <<>> =>
                      /\ containsMarkdown(c)
                      /\ \E e \in Range(last.report.errors) :
                            e.kind = "zod" /\ e.index = d[1] - 1 /\ e.field = d[2]
                      /\ last.report.phases = <<1, 2>>

\* a definition with markup characters that form no pattern reached the
\* sweep, which found nothing
C23_Witness ==
    /\ Validated /\ Parses(batchFiles[last.path])
    /\ 3 \in Range(last.report.phases)
    /\ \E d \in SectionsOf(ValidatedTerms) :
          HasMarkupCharacter(ValidatedTerms[d[1]].sections[d[2]])
    /\ MarkdownWarnings(last.report.warnings) = <<>>

(***************************************************************************)
(* Properties of a failing cross-reference check                           *)
(***************************************************************************)
\* the terms with every relationship pointed at its own term: the batch with
\* its dangling targets resolved, the terms and their categories unchanged
Resolved(terms) ==
    [i \in DOMAIN terms |->
        [terms[i] EXCEPT !.relationships =
            [r \in DOMAIN terms[i].relationships |->
                [terms[i].relationships[r] EXCEPT !.termId = terms[i].id]]]]

\* C24: a cross-reference error blocks acceptance but does not suppress
\* warnings: for a structurally valid batch with a dangling relationship
\* target the quiz audit still runs, and the result has valid = false with
\* every warning the batch yields when the target resolves, the number of
\* its terms as termCount and its categories.
C24_CrossRefKeepsWarnings ==
    (Validated /\ CrossRefErrors(last.report.errors) # <<>>) =>
        LET terms == ValidatedTerms
            resolved == validateBatch(Parsed(Resolved(terms)), corpusFile)
        IN  /\ ~last.report.valid
            /\ last.exit = 1
            /\ last.report.phases = <<1, 2, 3, 4, 5>>
            /\ resolved.valid
            /\ last.report.warnings = resolved.warnings
            /\ \A cat \in VALID_CATEGORIES :
                  (InBatch(cat) >= 1 /\ InCorpus(cat) + InBatch(cat) < 4)
                      => QuizWarnings("quiz", cat) # {}
            /\ last.report.termCount = Len(terms)
            /\ Range(last.report.categories) = {terms[i].category : i \in DOMAIN terms}

\* two terms, one with a dangling relationship: invalid, with the warnings
\* of both categories
C24_Witness ==
    /\ Validated /\ CrossRefErrors(last.report.errors) # <<>>
    /\ ~last.report.valid
    /\ Len(ValidatedTerms) = 2
    /\ last.report.termCount = 2
    /\ Len(last.report.categories) = 2
    /\ Len(last.report.warnings) >= 2

(***************************************************************************)
(* Properties of merges into a manifest with repeated ids                  *)
(***************************************************************************)
\* the number of entries of a manifest with an id, and equal to an entry
CountId(batches, id) == Cardinality({i \in DOMAIN batches : batches[i].id = id})

CountEntry(batches, e) == Cardinality({i \in DOMAIN batches : batches[i] = e})

\* the first place of an id in a manifest that holds it
FirstPlaceOf(batches, id) ==
    CHOOSE i \in DOMAIN batches :
        batches[i].id = id /\ \A j \in 1..(i - 1) : batches[j].id # id

\* C25: updateManifest does not establish the uniqueness of ids: when the
\* loaded manifest holds k >= 2 entries with the id of the merged batch, the
\* first of them alone is replaced and the persisted manifest still holds k
\* entries with that id; repeated entries of another id all remain.
C25_DuplicatesRemain ==
    LET before == Batches(prevManifest)
        after == Batches(manifestFile)
    IN  Merged =>
            /\ \A id \in EntryIds(before) : CountId(after, id) = CountId(before, id)
            /\ \A e \in Range(before) :
                  e.id # MergedId => CountEntry(after, e) = CountEntry(before, e)
            /\ CountId(before, MergedId) >= 2 =>
                  LET first == FirstPlaceOf(before, MergedId)
                      entry == createManifestEntry(last.path, batchFiles[last.path].content,
                                                   last.now)
                      replaced == [before EXCEPT ![first] = entry]
                  IN  \A e \in Range(replaced) \cup Range(after) :
                          CountEntry(after, e) = CountEntry(replaced, e)

\* b1 was merged into a manifest with two entries of b1 around one of b2:
\* the older entry of b1 is still there
C25_Witness ==
    /\ Merged
    /\ MergedId = "b1"
    /\ Len(Batches(prevManifest)) = 3
    /\ CountId(Batches(prevManifest), "b1") = 2
    /\ CountId(Batches(manifestFile), "b1") = 2
    /\ CountEntry(Batches(manifestFile), Batches(prevManifest)[3]) = 1
    /\ CountEntry(Batches(manifestFile), Batches(prevManifest)[1]) = 0

====
